---------------------------- MODULE Spec2Model ----------------------------
(***************************************************************************)
(* Task-routing and plan-execution engine of the Multi-Agent LLM System.   *)
(*                                                                         *)
(* One run of MultiAgentSystem.execute (src/main_system.py) driving        *)
(* Orchestrator.execute (src/orchestrator.py) over an AgentState           *)
(* (src/base_agent.py).  The workers and the text-generation service are   *)
(* collaborators: every outcome they can produce (a returned Result, a     *)
(* returned text, a raised exception) is a nondeterministic choice.        *)
(*                                                                         *)
(* The specifications share the variables: Spec is one run; FairSpec is a *)
(* run that keeps running, for progress; StateSpec is an AgentState under  *)
(* any sequence of calls of its methods; ThreadSpec is two calls of        *)
(* MultiAgentSystem.execute on one system, in turn or interleaved.         *)
(*                                                                         *)
(* Python values are modelled as follows.  A str is a TLA+ string, except  *)
(* the task, which is a sequence of one-character strings so that lower()  *)
(* and the substring test of _match_template are computed.  None is the    *)
(* distinguished string None.  A dict is a function (a record); d.get(k,v) *)
(* is Get(d, k, v).  Timestamps and the usage counters of format_result    *)
(* (timestamp, executions, tokens_used) are not read by any control flow   *)
(* and are left out of the records; a report keeps its timestamp and       *)
(* execution_time keys with a fixed value.                                 *)
(***************************************************************************)
EXTENDS Integers, Sequences, FiniteSets, TLC

(***************************************************************************)
(* Bounds of the model.                                                    *)
(***************************************************************************)
\* settings.max_iterations is drawn from 0..MaxCeiling
MaxCeiling == 4
\* a generated plan response is a JSON array of at most MaxGenLen items
MaxGenLen == 3

(***************************************************************************)
(* Python values.                                                          *)
(***************************************************************************)
None == "<None>"

EmptyDict == [k \in {} |-> None]

\* dict.get(k, dflt)
Get(d, k, dflt) == IF k \in DOMAIN d THEN d[k] ELSE dflt

\* str(x) for x a str or None
Str(x) == IF x = None THEN "None" ELSE x

\* d.update(u): the keys of u win
DictUpdate(d, u) == u @@ d

\* all sequences over S of length at most n
SeqUpTo(S, n) == UNION {[1..k -> S] : k \in 0..n}

(***************************************************************************)
(* Configuration (src/config.py) and the worker registry.                  *)
(***************************************************************************)
OrchestratorId == "orchestrator"

\* the five workers MultiAgentSystem.__init__ registers
Workers == {"research", "code", "data", "writing", "qa"}

\* AGENT_CONFIGS[id]["name"], read by BaseAgent.__init__ into self.name
AgentName(id) ==
    CASE id = "orchestrator" -> "Orchestrator"
      [] id = "research" -> "Research Agent"
      [] id = "code" -> "Code Agent"
      [] id = "data" -> "Data Agent"
      [] id = "writing" -> "Writing Agent"
      [] id = "qa" -> "QA Agent"
      [] OTHER -> id

\* Orchestrator.__init__ takes any agents dict; MultiAgentSystem passes all five
Registries == {Workers, {"research", "writing"}, {"code"}}

WORKFLOW_TEMPLATES ==
    [research_report |->
        [name |-> "Research Report",
         steps |-> <<[agent |-> "research", action |-> "gather_information"],
                     [agent |-> "data", action |-> "analyze_data"],
                     [agent |-> "writing", action |-> "create_report"],
                     [agent |-> "qa", action |-> "review_quality"]>>],
     data_analysis |->
        [name |-> "Data Analysis",
         steps |-> <<[agent |-> "code", action |-> "load_and_clean_data"],
                     [agent |-> "data", action |-> "perform_analysis"],
                     [agent |-> "data", action |-> "create_visualizations"],
                     [agent |-> "writing", action |-> "summarize_insights"]>>],
     code_project |->
        [name |-> "Code Project",
         steps |-> <<[agent |-> "code", action |-> "generate_code"],
                     [agent |-> "code", action |-> "write_tests"],
                     [agent |-> "qa", action |-> "code_review"],
                     [agent |-> "writing", action |-> "create_documentation"]>>]]

(***************************************************************************)
(* Tasks: strings as sequences of characters.                              *)
(***************************************************************************)
\* "Build a REST API for a todo app"
TaskBuildApi ==
    <<"B", "u", "i", "l", "d", " ", "a", " ", "R", "E", "S", "T", " ", "A", "P", "I",
      " ", "f", "o", "r", " ", "a", " ", "t", "o", "d", "o", " ", "a", "p", "p">>

\* "Load the CSV": matches "csv" only once lower-cased
TaskCsv == <<"L", "o", "a", "d", " ", "t", "h", "e", " ", "C", "S", "V">>

\* "Study my data": keywords of research_report and of data_analysis
TaskMulti == <<"S", "t", "u", "d", "y", " ", "m", "y", " ", "d", "a", "t", "a">>

\* "Decode it": "code" inside a longer word
TaskDecode == <<"D", "e", "c", "o", "d", "e", " ", "i", "t">>

\* "Say hello": no keyword
TaskPlain == <<"S", "a", "y", " ", "h", "e", "l", "l", "o">>

Tasks == {TaskBuildApi, TaskCsv, TaskMulti, TaskDecode, TaskPlain}

UpperToLower ==
    ("A" :> "a") @@ ("B" :> "b") @@ ("C" :> "c") @@ ("D" :> "d") @@ ("E" :> "e") @@
    ("F" :> "f") @@ ("G" :> "g") @@ ("H" :> "h") @@ ("I" :> "i") @@ ("J" :> "j") @@
    ("K" :> "k") @@ ("L" :> "l") @@ ("M" :> "m") @@ ("N" :> "n") @@ ("O" :> "o") @@
    ("P" :> "p") @@ ("Q" :> "q") @@ ("R" :> "r") @@ ("S" :> "s") @@ ("T" :> "t") @@
    ("U" :> "u") @@ ("V" :> "v") @@ ("W" :> "w") @@ ("X" :> "x") @@ ("Y" :> "y") @@
    ("Z" :> "z")

\* str.lower()
Lower(s) ==
    [i \in 1..Len(s) |-> IF s[i] \in DOMAIN UpperToLower THEN UpperToLower[s[i]] ELSE s[i]]

\* kw in s  (substring containment)
Contains(kw, s) ==
    \E i \in 0..(Len(s) - Len(kw)) : SubSeq(s, i + 1, i + Len(kw)) = kw

\* the keywords dict of _match_template, in its declaration order
TemplateOrder == <<"research_report", "data_analysis", "code_project">>

TemplateKeywords ==
    [research_report |->
        {<<"r", "e", "s", "e", "a", "r", "c", "h">>,
         <<"r", "e", "p", "o", "r", "t">>,
         <<"a", "n", "a", "l", "y", "s", "i", "s">>,
         <<"s", "t", "u", "d", "y">>},
     data_analysis |->
        {<<"a", "n", "a", "l", "y", "z", "e">>,
         <<"d", "a", "t", "a">>,
         <<"d", "a", "t", "a", "s", "e", "t">>,
         <<"c", "s", "v">>},
     code_project |->
        {<<"c", "o", "d", "e">>,
         <<"b", "u", "i", "l", "d">>,
         <<"c", "r", "e", "a", "t", "e">>,
         <<"p", "r", "o", "g", "r", "a", "m">>,
         <<"s", "c", "r", "i", "p", "t">>}]

(***************************************************************************)
(* State.                                                                  *)
(***************************************************************************)
VARIABLES
    pc,                  \* where the run is
    agents,              \* Orchestrator.agents: the registered worker ids
    max_iterations,      \* settings.max_iterations
    workflow_templates,  \* Orchestrator.workflow_templates
    task,                \* the task of the run
    state,               \* MultiAgentSystem.current_state: the AgentState
    plan,                \* local of Orchestrator.execute
    results,             \* local of Orchestrator.execute: the accumulated Results
    result,              \* what Orchestrator.execute returned
    report,              \* what MultiAgentSystem.execute returned
    execution_history,   \* MultiAgentSystem.execution_history
    exc,                 \* the exception in flight, if any
    llm_calls,           \* log of the calls of _call_llm
    exc_log,             \* log of the exceptions raised in the run path
    step_log,            \* log of the executed steps: the worker's outcome in each
    heap,                \* the AgentState objects interleaved runs created, by address
    current_state,       \* MultiAgentSystem.current_state when runs interleave: an address
    threads,             \* the interleaved calls of MultiAgentSystem.execute: their locals
    snapshots,           \* the dicts AgentState.to_dict returned to a caller
    calls                \* log of the calls made on an AgentState by a caller

\* what a single run of MultiAgentSystem.execute never touches
aside == <<heap, current_state, threads, snapshots, calls>>

vars == <<pc, agents, max_iterations, workflow_templates, task, state, plan,
          results, result, report, execution_history, exc, llm_calls, exc_log,
          step_log, heap, current_state, threads, snapshots, calls>>

\* an exception: its type, str(e), and the part of the run that raised it
Exception(type, msg, during) == [type |-> type, msg |-> msg, during |-> during]

NoExc == Exception("None", "", "None")
NoState == [none |-> TRUE]
NoResult == [none |-> TRUE]
NoReport == [none |-> TRUE]

\* str(e) of the exceptions the collaborators raise: Exception() has the empty message
ExcMessages == {"", "boom"}

\* AgentState.__init__
NewAgentState ==
    [messages |-> <<>>, results |-> EmptyDict, context |-> EmptyDict,
     history |-> <<>>, current_agent |-> None, iteration |-> 0]

\* AgentMessage.__init__
AgentMessage(sender, recipient, content, message_type, metadata) ==
    [sender |-> sender, recipient |-> recipient, content |-> content,
     message_type |-> message_type, metadata |-> metadata]

\* AgentMessage.to_dict
MessageToDict(m) ==
    [sender |-> m.sender, recipient |-> m.recipient, content |-> m.content,
     type |-> m.message_type, metadata |-> m.metadata]

\* add_message inserting at the front of both lists
AddMessagePrepend(st, m) ==
    [st EXCEPT !.messages = <<m>> \o @,
               !.history = <<[type |-> "message", data |-> MessageToDict(m)]>> \o @]

\* AgentState.add_message
AddMessage(st, m) ==
    [st EXCEPT !.messages = Append(@, m),
               !.history = Append(@, [type |-> "message", data |-> MessageToDict(m)])]

\* AgentState.set_result
SetResult(st, agent, r) ==
    [st EXCEPT !.results = (agent :> r) @@ @,
               !.history = Append(@, [type |-> "result", agent |-> agent, data |-> r])]

\* AgentState.get_result
GetResult(st, agent) == Get(st.results, agent, None)

\* AgentState.update_context
UpdateContext(st, updates) == [st EXCEPT !.context = DictUpdate(@, updates)]

\* AgentState.to_dict
StateToDict(st) ==
    [messages |-> [i \in 1..Len(st.messages) |-> MessageToDict(st.messages[i])],
     results |-> st.results,
     context |-> st.context,
     history |-> st.history,
     current_agent |-> st.current_agent,
     iteration |-> st.iteration]

\* BaseAgent.format_result
FormatResult(agent_id, output, success, error, metadata) ==
    [agent |-> agent_id, name |-> AgentName(agent_id), output |-> output,
     success |-> success, error |-> error, metadata |-> metadata]

Init ==
    /\ pc = "idle"
    /\ agents \in Registries
    /\ max_iterations \in 0..MaxCeiling
    /\ workflow_templates = WORKFLOW_TEMPLATES
    /\ task = <<>>
    /\ state = NoState
    /\ plan = <<>>
    /\ results = <<>>
    /\ result = NoResult
    /\ report = NoReport
    /\ execution_history = <<>>
    /\ exc = NoExc
    /\ llm_calls = <<>>
    /\ exc_log = <<>>
    /\ step_log = <<>>
    /\ heap = <<>>
    /\ current_state = 0
    /\ threads = <<>>
    /\ snapshots = <<>>
    /\ calls = <<>>

\* raise: the exception is in flight at `where`
Raise(where, e) ==
    /\ pc' = where
    /\ exc' = e
    /\ exc_log' = Append(exc_log, e)

(***************************************************************************)
(* MultiAgentSystem.execute, up to the call of Orchestrator.execute.       *)
(***************************************************************************)
\* the context argument: None, a mapping, or a value dict.update rejects
Contexts ==
    {[kind |-> "none"],
     [kind |-> "mapping", value |-> ("topic" :> "apps")],
     [kind |-> "empty", value |-> EmptyDict],
     [kind |-> "invalid"]}

SystemExecute(t, context) ==
    /\ pc = "idle"
    /\ task' = t
    /\ IF context.kind = "invalid"
       THEN \* a truthy non-mapping: dict.update raises inside the try
            /\ state' = NewAgentState
            /\ Raise("sys_except", Exception("TypeError", "not a mapping", "context"))
       ELSE /\ state' = IF context.kind = "mapping"
                        THEN UpdateContext(NewAgentState, context.value)
                        ELSE NewAgentState
            /\ pc' = "planning"
            /\ UNCHANGED <<exc, exc_log>>
    /\ UNCHANGED <<aside, agents, max_iterations, workflow_templates, plan, results,
                   result, report, execution_history, llm_calls, step_log>>

(***************************************************************************)
(* The text-generation service behind BaseAgent._call_llm.                 *)
(***************************************************************************)
\* an item of a JSON array: an object (a dict) or a string (no .get)
JsonItems ==
    {[kind |-> "object",
      obj |-> [agent |-> "research", action |-> "find facts", reasoning |-> "first"]],
     [kind |-> "object", obj |-> [agent |-> "code"]],
     [kind |-> "object", obj |-> [agent |-> "planner", action |-> "plan it"]],
     [kind |-> "object", obj |-> [action |-> "no agent named"]],
     [kind |-> "string"]}

\* the response texts, by what json.loads makes of them: a JSONDecodeError, a
\* number, an object (iterating it yields its keys, strings), or an array
PlanResponses ==
    {[kind |-> "malformed"], [kind |-> "number"],
     [kind |-> "object", items |-> <<>>],
     [kind |-> "object", items |-> <<[kind |-> "string"]>>]}
    \cup {[kind |-> "array", items |-> s] : s \in SeqUpTo(JsonItems, MaxGenLen)}

LLMRaises == {[kind |-> "raise", msg |-> m] : m \in ExcMessages}

PlanLLMOutcomes == LLMRaises \cup {[kind |-> "text", value |-> r] : r \in PlanResponses}

SynthesisLLMOutcomes == LLMRaises \cup {[kind |-> "text", value |-> "synthesized answer"]}

\* one entry of the call log: what was asked and how the call ended
LLMCall(purpose, request, o) ==
    [purpose |-> purpose, request |-> request, returned |-> (o.kind = "text"),
     class |-> IF o.kind = "text" /\ purpose = "plan" THEN o.value.kind ELSE o.kind]

(***************************************************************************)
(* Planner: Orchestrator._create_plan and what it calls.                   *)
(***************************************************************************)
\* _match_template returning the last matching template instead of the first
MatchTemplateLastWins(t) ==
    LET task_lower == Lower(t)
        hits == {i \in 1..Len(TemplateOrder) :
                    \E kw \in TemplateKeywords[TemplateOrder[i]] : Contains(kw, task_lower)}
    IN  IF hits = {} THEN None
        ELSE TemplateOrder[CHOOSE i \in hits : \A j \in hits : i >= j]

\* Orchestrator._match_template: the id of the matched template, or None
MatchTemplate(t) ==
    LET task_lower == Lower(t)
        hits == {i \in 1..Len(TemplateOrder) :
                    \E kw \in TemplateKeywords[TemplateOrder[i]] : Contains(kw, task_lower)}
    IN  IF hits = {} THEN None
        ELSE TemplateOrder[CHOOSE i \in hits : \A j \in hits : i <= j]

\* [step for step in plan if step.get("agent") in valid_agents]
RECURSIVE ValidSteps(_, _)
ValidSteps(items, valid_agents) ==
    IF items = <<>> THEN <<>>
    ELSE (IF Get(Head(items).obj, "agent", None) \in valid_agents
          THEN <<Head(items).obj>> ELSE <<>>)
         \o ValidSteps(Tail(items), valid_agents)

\* the plan of the except json.JSONDecodeError branch
DefaultPlan ==
    <<[agent |-> "research", action |-> "research task"],
      [agent |-> "writing", action |-> "write response"]>>

\* the plan substituted when validation leaves no step
FallbackPlan ==
    <<[agent |-> "research", action |-> "gather information"],
      [agent |-> "writing", action |-> "create output"]>>

\* _create_custom_plan without its except json.JSONDecodeError branch
ParsePlanNoExcept(response, valid_agents) ==
    IF response.kind \in {"malformed", "number"}
    THEN [kind |-> "raise",
          exc |-> Exception("JSONDecodeError", "Expecting value", "plan")]
    ELSE IF \E i \in 1..Len(response.items) : response.items[i].kind # "object"
    THEN [kind |-> "raise",
          exc |-> Exception("AttributeError", "'str' object has no attribute 'get'",
                            "plan")]
    ELSE LET filtered == ValidSteps(response.items, valid_agents)
         IN  [kind |-> "plan",
              plan |-> IF filtered = <<>> THEN FallbackPlan ELSE filtered]

\* Orchestrator._create_custom_plan from the response on: the plan returned, or
\* the exception that leaves the method
ParsePlan(response, valid_agents) ==
    IF response.kind = "malformed"
    THEN [kind |-> "plan", plan |-> DefaultPlan]
    ELSE IF response.kind = "number"
    THEN [kind |-> "raise",
          exc |-> Exception("TypeError", "'int' object is not iterable", "plan")]
    ELSE IF \E i \in 1..Len(response.items) : response.items[i].kind # "object"
    THEN [kind |-> "raise",
          exc |-> Exception("AttributeError", "'str' object has no attribute 'get'",
                            "plan")]
    ELSE LET filtered == ValidSteps(response.items, valid_agents)
         IN  [kind |-> "plan",
              plan |-> IF filtered = <<>> THEN FallbackPlan ELSE filtered]

\* the for loop of Orchestrator.execute starts, or has nothing to iterate
EnterLoop(p) == IF p = <<>> THEN "synthesizing" ELSE "executing"

CreatePlanFromTemplate ==
    /\ pc = "planning"
    /\ MatchTemplate(task) # None
    /\ plan' = workflow_templates[MatchTemplate(task)].steps
    /\ pc' = EnterLoop(plan')
    /\ UNCHANGED <<aside, agents, max_iterations, workflow_templates, task, state, results,
                   result, report, execution_history, exc, llm_calls, exc_log, step_log>>

CreateCustomPlan(o) ==
    /\ pc = "planning"
    /\ MatchTemplate(task) = None
    /\ llm_calls' = Append(llm_calls,
                           LLMCall("plan", [task |-> task, agents |-> agents], o))
    /\ IF o.kind = "raise"
       THEN /\ Raise("orch_except", Exception("GenerationError", o.msg, "plan"))
            /\ UNCHANGED plan
       ELSE LET parsed == ParsePlan(o.value, agents)
            IN  IF parsed.kind = "raise"
                THEN /\ Raise("orch_except", parsed.exc)
                     /\ UNCHANGED plan
                ELSE /\ plan' = parsed.plan
                     /\ pc' = EnterLoop(plan')
                     /\ UNCHANGED <<exc, exc_log>>
    /\ UNCHANGED <<aside, agents, max_iterations, workflow_templates, task, state, results,
                   result, report, execution_history, step_log>>

(***************************************************************************)
(* StepExecutor: Orchestrator._execute_step, and the workers.              *)
(***************************************************************************)
\* what a worker's execute can do: return a successful Result, return a failed
\* Result, or raise
WorkerOutcomes ==
    {[kind |-> "ok"], [kind |-> "fail", error |-> "worker failed"]}
    \cup {[kind |-> "raise", msg |-> m] : m \in ExcMessages}

\* the step of an unregistered id: _execute_step returns before any invocation
NotInvoked == [kind |-> "not_invoked"]

\* the context key each worker writes on success (state.update_context)
ContextKey(agent_id) ==
    CASE agent_id = "research" -> "research_results"
      [] agent_id = "code" -> "generated_code"
      [] agent_id = "data" -> "data_analysis"
      [] agent_id = "writing" -> "written_content"
      [] agent_id = "qa" -> "qa_results"
      [] OTHER -> agent_id

\* f"Agent '{agent_id}' not available"
NotAvailable(agent_id) ==
    CASE agent_id = "research" -> "Agent 'research' not available"
      [] agent_id = "code" -> "Agent 'code' not available"
      [] agent_id = "data" -> "Agent 'data' not available"
      [] agent_id = "writing" -> "Agent 'writing' not available"
      [] agent_id = "qa" -> "Agent 'qa' not available"
      [] OTHER -> "Agent not available"

\* a worker's successful execute: it writes its output to the context and returns
\* format_result(output, success=True, metadata); the output stands for the
\* instruction it was given, so the outputs of different steps differ
WorkerOk(agent_id, action, st) ==
    [result |-> FormatResult(agent_id, action, TRUE, None, ("source" :> agent_id)),
     state |-> UpdateContext(st, (ContextKey(agent_id) :> action)),
     invoked_at |-> Len(st.history)]

\* a worker's own except branch: format_result(None, success=False, error=str(e))
WorkerFail(agent_id, error, st) ==
    [result |-> FormatResult(agent_id, None, FALSE, error, EmptyDict),
     state |-> st,
     invoked_at |-> Len(st.history)]

\* the try branch of _execute_step with the response message added before the
\* result is stored
StoreAndAnswerMessageFirst(agent_id, returned) ==
    LET r == returned.result
        response == AgentMessage(agent_id, OrchestratorId, Str(Get(r, "output", "")),
                                 "result", Get(r, "metadata", EmptyDict))
        answered == AddMessage(returned.state, response)
    IN  [result |-> r, state |-> SetResult(answered, agent_id, r),
         invoked_at |-> returned.invoked_at]

\* the try branch of _execute_step once the worker returned `returned.result`
StoreAndAnswer(agent_id, returned) ==
    LET r == returned.result
        stored == SetResult(returned.state, agent_id, r)
        response == AgentMessage(agent_id, OrchestratorId, Str(Get(r, "output", "")),
                                 "result", Get(r, "metadata", EmptyDict))
    IN  [result |-> r, state |-> AddMessage(stored, response),
         invoked_at |-> returned.invoked_at]

\* the except branch of _execute_step
StepRaised(agent_id, msg, st) ==
    [result |-> [success |-> FALSE, error |-> msg, agent |-> agent_id],
     state |-> st,
     invoked_at |-> Len(st.history)]

\* _execute_step adding its task message before it looks the worker up
ExecuteStepOnMessageFirst(step, st, registered, o) ==
    LET agent_id == step.agent
        action == Get(step, "action", "execute task")
        sent == AddMessage([st EXCEPT !.current_agent = agent_id],
                           AgentMessage(OrchestratorId, agent_id, action,
                                        "task", EmptyDict))
    IN  IF agent_id \notin registered
        THEN [result |-> [success |-> FALSE, error |-> NotAvailable(agent_id)],
              state |-> sent,
              invoked_at |-> 0 - 1]
        ELSE CASE o.kind = "ok" ->
                    StoreAndAnswer(agent_id, WorkerOk(agent_id, action, sent))
               [] o.kind = "fail" ->
                    StoreAndAnswer(agent_id, WorkerFail(agent_id, o.error, sent))
               [] o.kind = "raise" -> StepRaised(agent_id, o.msg, sent)

\* _execute_step without its "agent_id not in self.agents" return: the lookup
\* self.agents[agent_id] fails with a KeyError
ExecuteStepOnNoLookup(step, st, registered, o) ==
    LET agent_id == step.agent
        action == Get(step, "action", "execute task")
    IN  IF agent_id \notin registered
        THEN StepRaised(agent_id, "KeyError", st)
        ELSE LET sent == AddMessage([st EXCEPT !.current_agent = agent_id],
                                    AgentMessage(OrchestratorId, agent_id, action,
                                                 "task", EmptyDict))
             IN  CASE o.kind = "ok" ->
                        StoreAndAnswer(agent_id, WorkerOk(agent_id, action, sent))
                   [] o.kind = "fail" ->
                        StoreAndAnswer(agent_id, WorkerFail(agent_id, o.error, sent))
                   [] o.kind = "raise" -> StepRaised(agent_id, o.msg, sent)

\* Orchestrator._execute_step: the Result returned and the AgentState left, for
\* the outcome o of the worker's execute; invoked_at is the length of the audit
\* log when agent.execute was entered, 0 - 1 when it never was
ExecuteStepOn(step, st, registered, o) ==
    LET agent_id == step.agent
        action == Get(step, "action", "execute task")
    IN  IF agent_id \notin registered
        THEN [result |-> [success |-> FALSE, error |-> NotAvailable(agent_id)],
              state |-> st,
              invoked_at |-> 0 - 1]
        ELSE LET sent == AddMessage([st EXCEPT !.current_agent = agent_id],
                                    AgentMessage(OrchestratorId, agent_id, action,
                                                 "task", EmptyDict))
             IN  CASE o.kind = "ok" ->
                        StoreAndAnswer(agent_id, WorkerOk(agent_id, action, sent))
                   [] o.kind = "fail" ->
                        StoreAndAnswer(agent_id, WorkerFail(agent_id, o.error, sent))
                   [] o.kind = "raise" -> StepRaised(agent_id, o.msg, sent)

(***************************************************************************)
(* RunLoop: one iteration of the for loop of Orchestrator.execute.         *)
(***************************************************************************)
\* the ceiling check written with > instead of >=
AfterStepStrict(iteration, ceiling, executed, planned) ==
    IF iteration > ceiling THEN "synthesizing"
    ELSE IF executed < planned THEN "executing"
    ELSE "synthesizing"

\* after state.iteration += 1: break, go on with the next step, or fall out
AfterStep(iteration, ceiling, executed, planned) ==
    IF iteration >= ceiling THEN "synthesizing"
    ELSE IF executed < planned THEN "executing"
    ELSE "synthesizing"

\* the loop counting an iteration only for a step whose Result succeeded
ExecuteStepCountSuccess(o) ==
    /\ pc = "executing"
    /\ LET step == plan[Len(results) + 1]
           done == ExecuteStepOn(step, state, agents, o)
           counted == IF Get(done.result, "success", FALSE) = TRUE THEN 1 ELSE 0
       IN  /\ (step.agent \in agents) <=> (o # NotInvoked)
           /\ results' = Append(results, done.result)
           /\ step_log' = Append(step_log, [agent |-> step.agent, outcome |-> o.kind,
                                            invoked_at |-> done.invoked_at])
           /\ state' = [done.state EXCEPT !.iteration = @ + counted]
           /\ pc' = AfterStep(state'.iteration, max_iterations, Len(results'), Len(plan))
    /\ UNCHANGED <<aside, agents, max_iterations, workflow_templates, task, plan, result,
                   report, execution_history, exc, llm_calls, exc_log>>

\* the loop retrying a step whose Result failed instead of moving on
ExecuteStepRetry(o) ==
    /\ pc = "executing"
    /\ LET step == plan[Len(results) + 1]
           done == ExecuteStepOn(step, state, agents, o)
           failed == Get(done.result, "success", FALSE) # TRUE
       IN  /\ (step.agent \in agents) <=> (o # NotInvoked)
           /\ results' = IF failed /\ state.iteration + 1 < max_iterations
                         THEN results ELSE Append(results, done.result)
           /\ step_log' = Append(step_log, [agent |-> step.agent, outcome |-> o.kind,
                                            invoked_at |-> done.invoked_at])
           /\ state' = [done.state EXCEPT !.iteration = @ + 1]
           /\ pc' = AfterStep(state'.iteration, max_iterations, Len(results'), Len(plan))
    /\ UNCHANGED <<aside, agents, max_iterations, workflow_templates, task, plan, result,
                   report, execution_history, exc, llm_calls, exc_log>>

\* the loop stopping for good at a step whose Result failed
ExecuteStepBlocksOnFailure(o) ==
    /\ pc = "executing"
    /\ LET step == plan[Len(results) + 1]
           done == ExecuteStepOn(step, state, agents, o)
       IN  /\ (step.agent \in agents) <=> (o # NotInvoked)
           /\ results' = Append(results, done.result)
           /\ step_log' = Append(step_log, [agent |-> step.agent, outcome |-> o.kind,
                                            invoked_at |-> done.invoked_at])
           /\ state' = [done.state EXCEPT !.iteration = @ + 1]
           /\ pc' = IF Get(done.result, "success", FALSE) = TRUE
                    THEN AfterStep(state'.iteration, max_iterations, Len(results'),
                                   Len(plan))
                    ELSE "blocked"
    /\ UNCHANGED <<aside, agents, max_iterations, workflow_templates, task, plan, result,
                   report, execution_history, exc, llm_calls, exc_log>>

ExecuteStep(o) ==
    /\ pc = "executing"
    /\ LET step == plan[Len(results) + 1]
           done == ExecuteStepOn(step, state, agents, o)
       IN  /\ (step.agent \in agents) <=> (o # NotInvoked)
           /\ results' = Append(results, done.result)
           /\ step_log' = Append(step_log, [agent |-> step.agent, outcome |-> o.kind,
                                            invoked_at |-> done.invoked_at])
           /\ state' = [done.state EXCEPT !.iteration = @ + 1]
           /\ pc' = AfterStep(state'.iteration, max_iterations, Len(results'), Len(plan))
    /\ UNCHANGED <<aside, agents, max_iterations, workflow_templates, task, plan, result,
                   report, execution_history, exc, llm_calls, exc_log>>

(***************************************************************************)
(* Synthesizer: Orchestrator._synthesize_results, and the return of        *)
(* Orchestrator.execute.                                                   *)
(***************************************************************************)
NoOutputs == "No successful outputs from agents."

\* bool(result.get("success"))
Succeeded(r) == Get(r, "success", FALSE) = TRUE

\* the indices zip(plan, results) pairs up
Zipped(p, rs) == 1..(IF Len(p) <= Len(rs) THEN Len(p) ELSE Len(rs))

\* the outputs list: one labelled entry per successful result, in order
RECURSIVE OutputsFrom(_, _, _)
OutputsFrom(i, p, rs) ==
    IF i \notin Zipped(p, rs) THEN <<>>
    ELSE (IF Succeeded(rs[i])
          THEN <<[name |-> AgentName(p[i].agent), output |-> Get(rs[i], "output", "")]>>
          ELSE <<>>)
         \o OutputsFrom(i + 1, p, rs)

\* the outputs list built without the "if result.get('success')" test
OutputsOfAllSteps(p, rs) ==
    [i \in Zipped(p, rs) |->
        [name |-> AgentName(p[i].agent), output |-> Get(rs[i], "output", "")]]

SuccessfulOutputs(p, rs) == OutputsFrom(1, p, rs)

\* self.agents[step["agent"]] raises KeyError for a successful result of an
\* unregistered id
SynthesisKeyError(p, rs, registered) ==
    \E i \in Zipped(p, rs) : Succeeded(rs[i]) /\ p[i].agent \notin registered

\* _synthesize_results without its "if not outputs" return
AlwaysGenerate(outputs) == TRUE

\* whether _synthesize_results goes on to call the generation service
NeedsGeneration(outputs) == outputs # <<>>

\* a return of Orchestrator.execute whose success follows the steps' success
OrchestratorResultByAnySuccess(final_result, p, rs) ==
    FormatResult(OrchestratorId, final_result,
                 \E i \in 1..Len(rs) : Get(rs[i], "success", FALSE) = TRUE, None,
                 [plan |-> p, steps_executed |-> Len(rs),
                  agents_used |-> {p[i].agent : i \in 1..Len(p)}])

\* the return of the try block of Orchestrator.execute
OrchestratorResult(final_result, p, rs) ==
    FormatResult(OrchestratorId, final_result, TRUE, None,
                 [plan |-> p, steps_executed |-> Len(rs),
                  agents_used |-> {p[i].agent : i \in 1..Len(p)}])

\* the except branch of Orchestrator.execute dropping the exception's message
OrchestratorFailureNoMessage(e) ==
    FormatResult(OrchestratorId, None, FALSE, None, EmptyDict)

\* the except Exception branch of Orchestrator.execute
OrchestratorFailure(e) ==
    FormatResult(OrchestratorId, None, FALSE, e.msg, EmptyDict)

SynthesizeNothing ==
    /\ pc = "synthesizing"
    /\ ~SynthesisKeyError(plan, results, agents)
    /\ ~NeedsGeneration(SuccessfulOutputs(plan, results))
    /\ result' = OrchestratorResult(NoOutputs, plan, results)
    /\ pc' = "finishing"
    /\ UNCHANGED <<aside, agents, max_iterations, workflow_templates, task, state, plan,
                   results, report, execution_history, exc, llm_calls, exc_log, step_log>>

Synthesize(o) ==
    /\ pc = "synthesizing"
    /\ SynthesisKeyError(plan, results, agents)
       \/ NeedsGeneration(SuccessfulOutputs(plan, results))
    /\ IF SynthesisKeyError(plan, results, agents)
       THEN /\ Raise("orch_except", Exception("KeyError", "agent", "synthesis"))
            /\ UNCHANGED <<result, llm_calls>>
       ELSE /\ llm_calls' =
                 Append(llm_calls,
                        LLMCall("synthesis",
                                [task |-> task,
                                 outputs |-> SuccessfulOutputs(plan, results)], o))
            /\ IF o.kind = "raise"
               THEN /\ Raise("orch_except",
                             Exception("GenerationError", o.msg, "synthesis"))
                    /\ UNCHANGED result
               ELSE /\ result' = OrchestratorResult(o.value, plan, results)
                    /\ pc' = "finishing"
                    /\ UNCHANGED <<exc, exc_log>>
    /\ UNCHANGED <<aside, agents, max_iterations, workflow_templates, task, state, plan,
                   results, report, execution_history, step_log>>

OrchestratorExcept ==
    /\ pc = "orch_except"
    /\ result' = OrchestratorFailure(exc)
    /\ exc' = NoExc
    /\ pc' = "finishing"
    /\ UNCHANGED <<aside, agents, max_iterations, workflow_templates, task, state, plan,
                   results, report, execution_history, llm_calls, exc_log, step_log>>

(***************************************************************************)
(* MultiAgentSystem.execute, from the return of Orchestrator.execute on.   *)
(***************************************************************************)
\* datetime.now().isoformat() and the measured seconds of a report: the keys are
\* modelled, the values are not
Now == "<now>"

Elapsed == "<seconds>"

\* Orchestrator.get_execution_summary
GetExecutionSummary(st) ==
    LET senders == {st.messages[i].sender : i \in 1..Len(st.messages)} \ {OrchestratorId}
    IN  [total_iterations |-> st.iteration,
         agents_used |->
            [a \in senders |->
                Cardinality({i \in 1..Len(st.messages) : st.messages[i].sender = a})],
         messages_exchanged |-> Len(st.messages),
         results_generated |-> Cardinality(DOMAIN st.results)]

\* complete_result
CompleteResult(t, r, st) ==
    [task |-> t, output |-> Get(r, "output", None), success |-> Get(r, "success", None),
     error |-> Get(r, "error", None), execution_time |-> Elapsed,
     summary |-> GetExecutionSummary(st), state |-> StateToDict(st),
     timestamp |-> Now]

\* the dict the except Exception branch of MultiAgentSystem.execute returns
FailureReport(t, e) ==
    [task |-> t, output |-> None, success |-> FALSE, error |-> e.msg, timestamp |-> Now]

SystemReturn ==
    /\ pc = "finishing"
    /\ report' = CompleteResult(task, result, state)
    /\ execution_history' = Append(execution_history, report')
    /\ pc' = "done"
    /\ UNCHANGED <<aside, agents, max_iterations, workflow_templates, task, state, plan,
                   results, result, exc, llm_calls, exc_log, step_log>>

\* MultiAgentSystem.execute without its except Exception branch
SystemExceptMissing ==
    /\ pc = "sys_except"
    /\ pc' = "escaped"
    /\ UNCHANGED <<aside, agents, max_iterations, workflow_templates, task, state, plan,
                   results, result, report, execution_history, exc, llm_calls,
                   exc_log, step_log>>

SystemExcept ==
    /\ pc = "sys_except"
    /\ report' = FailureReport(task, exc)
    /\ exc' = NoExc
    /\ pc' = "done"
    /\ UNCHANGED <<aside, agents, max_iterations, workflow_templates, task, state, plan,
                   results, result, execution_history, llm_calls, exc_log, step_log>>

Next ==
    \/ \E t \in Tasks, c \in Contexts : SystemExecute(t, c)
    \/ CreatePlanFromTemplate
    \/ \E o \in PlanLLMOutcomes : CreateCustomPlan(o)
    \/ \E o \in WorkerOutcomes \cup {NotInvoked} : ExecuteStep(o)
    \/ SynthesizeNothing
    \/ \E o \in SynthesisLLMOutcomes : Synthesize(o)
    \/ OrchestratorExcept
    \/ SystemReturn
    \/ SystemExcept

Spec == Init /\ [][Next]_vars

\* a generated plan response is an array of at most FairGenLen items when
\* progress is checked
FairGenLen == 2

FairPlanLLMOutcomes ==
    {o \in PlanLLMOutcomes :
        (o.kind = "text" /\ o.value.kind = "array") => Len(o.value.items) <= FairGenLen}

FairNext ==
    \/ \E t \in Tasks, c \in Contexts : SystemExecute(t, c)
    \/ CreatePlanFromTemplate
    \/ \E o \in FairPlanLLMOutcomes : CreateCustomPlan(o)
    \/ \E o \in WorkerOutcomes \cup {NotInvoked} : ExecuteStep(o)
    \/ SynthesizeNothing
    \/ \E o \in SynthesisLLMOutcomes : Synthesize(o)
    \/ OrchestratorExcept
    \/ SystemReturn
    \/ SystemExcept

\* a run that is not over keeps running: every action is a call that returns or
\* raises, so a step that can be taken is eventually taken
FairSpec == Init /\ [][FairNext]_vars /\ WF_vars(FairNext)
(***************************************************************************)
(* AgentState on its own: a caller holding one AgentState makes any        *)
(* sequence of calls of its methods and keeps the dicts to_dict returned.  *)
(***************************************************************************)
\* a caller makes at most MaxCalls calls
MaxCalls == 4

\* the values of the dict to_dict returns that are the AgentState's own objects:
\* self.results, self.context and self.history are returned, not copied; the
\* messages list is built anew
ToDictShared == {"results", "context", "history"}

\* the object to_dict returns: its content when it was returned, and the keys
\* whose values are shared with the AgentState
Export(st) == [dict |-> StateToDict(st), shared |-> ToDictShared]

\* what the holder of an exported dict reads from it once the AgentState is st:
\* a shared value is the AgentState's own object, whatever was done to it since
ReadSnapshot(snap, st) ==
    [f \in DOMAIN snap.dict |-> IF f \in snap.shared THEN st[f] ELSE snap.dict[f]]

SomeMessages ==
    {AgentMessage(OrchestratorId, "research", "find facts", "task", EmptyDict),
     AgentMessage("research", OrchestratorId, "facts", "result", ("source" :> "research"))}

SomeResults ==
    {FormatResult("research", "facts", TRUE, None, EmptyDict),
     FormatResult("research", None, FALSE, "boom", EmptyDict)}

SomeUpdates == {("topic" :> "apps"), ("topic" :> "data"), ("research_results" :> "facts")}

StateInit ==
    /\ pc = "calls"
    /\ state = NewAgentState
    /\ snapshots = <<>>
    /\ calls = <<>>
    /\ agents = Workers
    /\ max_iterations = MaxCeiling
    /\ workflow_templates = WORKFLOW_TEMPLATES
    /\ task = <<>>
    /\ plan = <<>>
    /\ results = <<>>
    /\ result = NoResult
    /\ report = NoReport
    /\ execution_history = <<>>
    /\ exc = NoExc
    /\ llm_calls = <<>>
    /\ exc_log = <<>>
    /\ step_log = <<>>
    /\ heap = <<>>
    /\ current_state = 0
    /\ threads = <<>>

\* what a call on the AgentState leaves alone
beside == <<pc, agents, max_iterations, workflow_templates, task, plan, results,
            result, report, execution_history, exc, llm_calls, exc_log, step_log,
            heap, current_state, threads>>

CanCall == pc = "calls" /\ Len(calls) < MaxCalls

CallAddMessage(m) ==
    /\ CanCall
    /\ state' = AddMessage(state, m)
    /\ calls' = Append(calls, [op |-> "add_message", message |-> m])
    /\ UNCHANGED <<beside, snapshots>>

CallSetResult(agent, r) ==
    /\ CanCall
    /\ state' = SetResult(state, agent, r)
    /\ calls' = Append(calls, [op |-> "set_result", agent |-> agent])
    /\ UNCHANGED <<beside, snapshots>>

CallUpdateContext(updates) ==
    /\ CanCall
    /\ state' = UpdateContext(state, updates)
    /\ calls' = Append(calls, [op |-> "update_context"])
    /\ UNCHANGED <<beside, snapshots>>

CallGetResult(agent) ==
    /\ CanCall
    /\ calls' = Append(calls, [op |-> "get_result", agent |-> agent,
                               returned |-> GetResult(state, agent)])
    /\ UNCHANGED <<beside, state, snapshots>>

CallToDict ==
    /\ CanCall
    /\ snapshots' = Append(snapshots, Export(state))
    /\ calls' = Append(calls, [op |-> "to_dict"])
    /\ UNCHANGED <<beside, state>>

StateNext ==
    \/ \E m \in SomeMessages : CallAddMessage(m)
    \/ \E a \in {"research", "code"}, r \in SomeResults : CallSetResult(a, r)
    \/ \E u \in SomeUpdates : CallUpdateContext(u)
    \/ \E a \in {"research", "code"} : CallGetResult(a)
    \/ CallToDict

StateSpec == StateInit /\ [][StateNext]_vars

(***************************************************************************)
(* Interleaved runs: two threads call MultiAgentSystem.execute on the same *)
(* system.  Each thread has its own locals; self.current_state,            *)
(* self.execution_history and the AgentState objects are shared.  A thread *)
(* is pre-empted only between the steps below, which is a subset of the    *)
(* interleavings the interpreter allows.                                   *)
(***************************************************************************)
\* settings.max_iterations is drawn from 1..MaxThreadSteps when runs interleave
MaxThreadSteps == 2

\* the tasks of the two calls; both match a template, so planning calls nothing
ThreadTasks == <<TaskBuildApi, TaskCsv>>

\* the two calls are given different tasks, or the same task twice
ThreadTaskChoices == {ThreadTasks, <<TaskBuildApi, TaskBuildApi>>}

ThreadWorkerOutcomes == {[kind |-> "ok"], [kind |-> "fail", error |-> "worker failed"]}

ThreadSynthesisOutcomes ==
    {[kind |-> "raise", msg |-> "boom"], [kind |-> "text", value |-> "synthesized answer"]}

\* the locals of a call of MultiAgentSystem.execute that has not started; plan
\* will name a list of the template catalogue (template["steps"] is returned,
\* not copied) and holds the id of its template
NewThread(t) ==
    [pc |-> "start", task |-> t, created |-> 0, state |-> 0, plan |-> None,
     results |-> <<>>, result |-> NoResult, report |-> NoReport, alone |-> TRUE]

\* the list the local plan of a call names: the catalogue's own, as it is now
PlanOf(th) == workflow_templates[th.plan].steps

ThreadInit ==
    /\ \E ts \in ThreadTaskChoices :
          threads = [t \in 1..Len(ts) |-> NewThread(ts[t])]
    /\ heap = <<>>
    /\ current_state = 0
    /\ execution_history = <<>>
    /\ agents = Workers
    /\ max_iterations \in 1..MaxThreadSteps
    /\ workflow_templates = WORKFLOW_TEMPLATES
    /\ pc = "threads"
    /\ task = <<>>
    /\ state = NoState
    /\ plan = <<>>
    /\ results = <<>>
    /\ result = NoResult
    /\ report = NoReport
    /\ exc = NoExc
    /\ llm_calls = <<>>
    /\ exc_log = <<>>
    /\ step_log = <<>>
    /\ snapshots = <<>>
    /\ calls = <<>>

\* what the interleaved calls leave alone
apart == <<pc, agents, max_iterations, workflow_templates, task, state, plan, results,
           result, report, exc, llm_calls, exc_log, step_log, snapshots, calls>>

\* self.current_state = AgentState()
ThreadCreateState(t) ==
    /\ threads[t].pc = "start"
    /\ heap' = Append(heap, NewAgentState)
    /\ current_state' = Len(heap')
    /\ threads' = [threads EXCEPT
                      ![t].pc = "call",
                      ![t].created = Len(heap'),
                      ![t].alone = \A u \in DOMAIN threads \ {t} :
                                      threads[u].pc \in {"start", "done"}]
    /\ UNCHANGED <<apart, execution_history>>

\* self.orchestrator.execute(task, self.current_state), up to the for loop: the
\* attribute is read when the call is made
ThreadCallOrchestrator(t) ==
    /\ threads[t].pc = "call"
    /\ MatchTemplate(threads[t].task) # None
    /\ LET template_id == MatchTemplate(threads[t].task)
       IN  threads' = [threads EXCEPT
                          ![t].state = current_state,
                          ![t].plan = template_id,
                          ![t].pc = EnterLoop(workflow_templates[template_id].steps)]
    /\ UNCHANGED <<apart, heap, current_state, execution_history>>

\* the for loop marking each step it has executed: step["done"] = True writes
\* into the catalogue's own list
ThreadExecuteStepMarking(t, o) ==
    /\ threads[t].pc = "executing"
    /\ LET th == threads[t]
           n == Len(th.results) + 1
           step == PlanOf(th)[n]
           done == ExecuteStepOn(step, heap[th.state], agents, o)
           left == [done.state EXCEPT !.iteration = @ + 1]
       IN  /\ heap' = [heap EXCEPT ![th.state] = left]
           /\ workflow_templates' =
                 [workflow_templates EXCEPT ![th.plan].steps[n] = ("done" :> TRUE) @@ @]
           /\ threads' = [threads EXCEPT
                             ![t].results = Append(@, done.result),
                             ![t].pc = AfterStep(left.iteration, max_iterations,
                                                 n, Len(PlanOf(th)))]
    /\ UNCHANGED <<pc, agents, max_iterations, task, state, plan, results, result,
                   report, exc, llm_calls, exc_log, step_log, snapshots, calls,
                   current_state, execution_history>>

\* one iteration of the for loop, on the AgentState the orchestrator was handed
ThreadExecuteStep(t, o) ==
    /\ threads[t].pc = "executing"
    /\ LET th == threads[t]
           step == PlanOf(th)[Len(th.results) + 1]
           done == ExecuteStepOn(step, heap[th.state], agents, o)
           left == [done.state EXCEPT !.iteration = @ + 1]
       IN  /\ heap' = [heap EXCEPT ![th.state] = left]
           /\ threads' = [threads EXCEPT
                             ![t].results = Append(@, done.result),
                             ![t].pc = AfterStep(left.iteration, max_iterations,
                                                 Len(th.results) + 1, Len(PlanOf(th)))]
    /\ UNCHANGED <<apart, current_state, execution_history>>

\* _synthesize_results and the return of Orchestrator.execute
ThreadSynthesize(t, o) ==
    /\ threads[t].pc = "synthesizing"
    /\ LET th == threads[t]
           r == IF ~NeedsGeneration(SuccessfulOutputs(PlanOf(th), th.results))
                THEN OrchestratorResult(NoOutputs, PlanOf(th), th.results)
                ELSE IF o.kind = "raise"
                THEN OrchestratorFailure(Exception("GenerationError", o.msg, "synthesis"))
                ELSE OrchestratorResult(o.value, PlanOf(th), th.results)
       IN  threads' = [threads EXCEPT ![t].result = r, ![t].pc = "finishing"]
    /\ UNCHANGED <<apart, heap, current_state, execution_history>>

\* the summary, complete_result and the append to execution_history:
\* self.current_state is read again for the summary and for the export
ThreadReturn(t) ==
    /\ threads[t].pc = "finishing"
    /\ LET th == threads[t]
           complete == CompleteResult(th.task, th.result, heap[current_state])
       IN  /\ threads' = [threads EXCEPT ![t].report = complete, ![t].pc = "done"]
           /\ execution_history' = Append(execution_history, complete)
    /\ UNCHANGED <<apart, heap, current_state>>

ThreadNext ==
    \/ \E t \in DOMAIN threads : ThreadCreateState(t)
    \/ \E t \in DOMAIN threads : ThreadCallOrchestrator(t)
    \/ \E t \in DOMAIN threads, o \in ThreadWorkerOutcomes : ThreadExecuteStep(t, o)
    \/ \E t \in DOMAIN threads, o \in ThreadSynthesisOutcomes : ThreadSynthesize(t, o)
    \/ \E t \in DOMAIN threads : ThreadReturn(t)

ThreadSpec == ThreadInit /\ [][ThreadNext]_vars

(***************************************************************************)
(* Properties.                                                             *)
(***************************************************************************)
Min(a, b) == IF a <= b THEN a ELSE b

\* the for loop of Orchestrator.execute is over (or was never entered)
LoopOver == pc \in {"synthesizing", "orch_except", "finishing", "done"}

AnySuccess == \E i \in 1..Len(results) : Succeeded(results[i])

PlanCalls == {i \in 1..Len(llm_calls) : llm_calls[i].purpose = "plan"}

SynthesisCalls == {i \in 1..Len(llm_calls) : llm_calls[i].purpose = "synthesis"}

\* an exception left _create_plan
PlanRaised == \E i \in 1..Len(exc_log) : exc_log[i].during = "plan"

\* the context argument made MultiAgentSystem.execute raise before planning
ContextRaised == \E i \in 1..Len(exc_log) : exc_log[i].during = "context"

\* _create_plan has returned a plan
PlanReturned ==
    /\ pc \in {"executing", "synthesizing", "orch_except", "finishing", "done"}
    /\ ~PlanRaised
    /\ ~ContextRaised

StepAgents(p) == [i \in 1..Len(p) |-> Get(p[i], "agent", None)]

\* C1: a step whose worker raised yields a Result with success = false and a
\* non-empty error, and the loop still executes every later step of the plan
\* that is within the iteration ceiling.
C1_RaisedStepFailsWithError ==
    /\ \A i \in 1..Len(step_log) :
          step_log[i].outcome = "raise" =>
             /\ ~Succeeded(results[i])
             /\ Get(results[i], "error", None) \notin {None, ""}
    /\ LoopOver => Len(results) >= Min(Len(plan), max_iterations)

\* C2: the number of step executions of a run never exceeds
\* settings.max_iterations, a ceiling of 0 included.
C2_ExecutionsWithinCeiling == Len(step_log) <= max_iterations

\* C3: every step of the plan _create_plan returned names a registered worker.
C3_PlanNamesRegisteredWorkers ==
    \A i \in 1..Len(plan) : Get(plan[i], "agent", None) \in agents

\* C4: for a task matching no template, whatever text the generation service
\* returns, _create_plan returns a non-empty plan and raises nothing.
C4_AnyResponseYieldsPlan ==
    (\E i \in PlanCalls : llm_calls[i].returned) => (~PlanRaised /\ Len(plan) >= 1)

\* the template _match_template is to pick: the first, in declaration order, one
\* of whose keywords occurs in the lower-cased task
ExpectedTemplate(t) ==
    LET has(id) == \E kw \in TemplateKeywords[id] : Contains(kw, Lower(t))
    IN  IF has("research_report") THEN "research_report"
        ELSE IF has("data_analysis") THEN "data_analysis"
        ELSE IF has("code_project") THEN "code_project"
        ELSE None

\* C5: for a task containing a keyword of a template, the plan is exactly the step
\* list of the first such template in declaration order, and the generation
\* service is not called for planning; "Build a REST API for a todo app" yields
\* [code, code, qa, writing].
C5_TemplatePlanIsFirstMatch ==
    /\ (pc = "executing" /\ ExpectedTemplate(task) # None) =>
          /\ plan = WORKFLOW_TEMPLATES[ExpectedTemplate(task)].steps
          /\ llm_calls = <<>>
    /\ (PlanReturned /\ task = TaskBuildApi) =>
          /\ StepAgents(plan) = <<"code", "code", "qa", "writing">>
          /\ PlanCalls = {}
    /\ (PlanReturned /\ task = TaskCsv) =>
          plan = WORKFLOW_TEMPLATES.data_analysis.steps /\ PlanCalls = {}
    /\ (PlanReturned /\ task = TaskMulti) =>
          plan = WORKFLOW_TEMPLATES.research_report.steps /\ PlanCalls = {}
    /\ (PlanReturned /\ task = TaskDecode) =>
          plan = WORKFLOW_TEMPLATES.code_project.steps /\ PlanCalls = {}

C5_Witness ==
    /\ pc = "done"
    /\ task = TaskMulti
    /\ plan = WORKFLOW_TEMPLATES.research_report.steps
    /\ Len(results) = 4

\* C6: for a task matching no template, when the generation service returns text
\* that is not valid JSON, the plan is the two steps research then writing.
C6_MalformedJsonYieldsDefaultPlan ==
    (\E i \in PlanCalls : llm_calls[i].class = "malformed") =>
        /\ PlanReturned
        /\ ~PlanRaised
        /\ StepAgents(plan) = <<"research", "writing">>

C6_Witness ==
    /\ \E i \in PlanCalls : llm_calls[i].class = "malformed"
    /\ pc = "done"
    /\ Len(results) = 2
    /\ StepAgents(plan) = <<"research", "writing">>

\* C7: for a task matching no template, when the generation call of plan
\* construction raises GenerationError, _create_plan does not raise it: it returns
\* a plan.
C7_PlanAbsorbsGenerationError ==
    (\E i \in PlanCalls : ~llm_calls[i].returned) =>
        /\ ~(\E i \in 1..Len(exc_log) :
                exc_log[i].during = "plan" /\ exc_log[i].type = "GenerationError")
        /\ Len(plan) >= 1

\* _synthesize_results has returned or raised
SynthesisOver ==
    /\ pc \in {"orch_except", "finishing", "done"}
    /\ ~PlanRaised
    /\ ~ContextRaised

\* C8: with no successful Result (the empty list included) synthesis returns the
\* fixed sentinel and makes no generation call; with at least one successful
\* Result it makes exactly one.
C8_SentinelWithoutGeneration ==
    /\ ~AnySuccess => SynthesisCalls = {}
    /\ (SynthesisOver /\ ~AnySuccess) =>
          /\ pc # "orch_except"
          /\ result.output = NoOutputs
    /\ (SynthesisOver /\ AnySuccess) => Cardinality(SynthesisCalls) = 1
    /\ ~SynthesisOver => SynthesisCalls = {}
    /\ ~NeedsGeneration(SuccessfulOutputs(plan, <<>>))

C8_Witness ==
    /\ pc = "done"
    /\ Len(results) >= 2
    /\ ~AnySuccess
    /\ report.output = NoOutputs
    /\ llm_calls = <<>>

\* C9: whatever fails (the context, the Planner, a worker, the Synthesizer, the
\* generation service), the run ends by returning a report: an exception in
\* flight is always inside a try block that handles it, a run that is not over
\* can go on, and a run that is over has returned a report.
C9_AlwaysReturnsReport ==
    /\ (exc # NoExc) => pc \in {"orch_except", "sys_except"}
    /\ (pc \in {"orch_except", "sys_except"}) => exc # NoExc
    /\ (pc # "done") => ENABLED Next
    /\ (pc = "done") =>
          /\ report # NoReport
          /\ report.task = task
          /\ report.success \in BOOLEAN

C9_Witness ==
    /\ pc = "done"
    /\ Len(exc_log) = 1
    /\ exc_log[1].during = "context"
    /\ report.success = FALSE

\* C10: the report's success flag is true exactly when no exception reached the
\* top level of the run, however many steps failed: a run in which every step
\* failed reports success = true with the sentinel output.
C10_SuccessIffNoTopLevelException ==
    (pc = "done") =>
        /\ (report.success = TRUE) <=> (exc_log = <<>>)
        /\ (exc_log = <<>> /\ ~AnySuccess) =>
              (report.success = TRUE /\ report.output = NoOutputs)

C10_Witness ==
    /\ pc = "done"
    /\ Len(results) = 4
    /\ ~AnySuccess
    /\ \E i \in 1..4 : step_log[i].outcome = "raise"
    /\ report.success = TRUE
    /\ report.output = NoOutputs

\* C12: for a plan of n steps and a ceiling c >= 1, a run on a fresh AgentState
\* executes exactly the first min(n, c) steps, in plan order, and synthesizes
\* with exactly min(n, c) accumulated Results, failed steps counted; with c = 1
\* and n = 3 only step 1 is executed and 1 Result is accumulated.
C12_ExecutesFirstMinSteps ==
    (max_iterations >= 1 /\ PlanReturned) =>
        /\ Len(results) <= Min(Len(plan), max_iterations)
        /\ Len(step_log) = Len(results)
        /\ state.iteration = Len(results)
        /\ \A i \in 1..Len(step_log) : step_log[i].agent = plan[i].agent
        /\ (pc = "executing") <=> (Len(results) < Min(Len(plan), max_iterations))
        /\ LoopOver => Len(results) = Min(Len(plan), max_iterations)
        /\ (pc \in {"finishing", "done"} /\ exc_log = <<>>) =>
              result.metadata.steps_executed = Min(Len(plan), max_iterations)
        /\ \A i \in SynthesisCalls :
              Len(llm_calls[i].request.outputs) =
                 Cardinality({j \in 1..Min(Len(plan), max_iterations) :
                                 Succeeded(results[j])})
        /\ (LoopOver /\ max_iterations = 1 /\ Len(plan) = 3) => Len(results) = 1

C12_Witness ==
    /\ pc = "done"
    /\ max_iterations = 1
    /\ Len(plan) = 3
    /\ Len(results) = 1
    /\ ~Succeeded(results[1])
    /\ report.output = NoOutputs

\* the executed steps whose worker is registered, in execution order
RegisteredSteps == {i \in 1..Len(step_log) : step_log[i].agent \in agents}

\* how many steps up to step i had a registered worker
RegisteredUpTo(i) == Cardinality({j \in RegisteredSteps : j <= i})

\* C13: every executed step whose worker is registered adds to the message log
\* an outbound message (orchestrator to worker) and then an inbound message
\* (worker to orchestrator), whether the worker returned a successful Result,
\* returned a failed Result, or raised.
C13_OutboundAndInboundPerStep ==
    (pc # "idle") =>
        /\ Len(state.messages) = 2 * Cardinality(RegisteredSteps)
        /\ \A i \in RegisteredSteps :
              LET k == RegisteredUpTo(i)
              IN  /\ state.messages[2 * k - 1].sender = OrchestratorId
                  /\ state.messages[2 * k - 1].recipient = step_log[i].agent
                  /\ state.messages[2 * k].sender = step_log[i].agent
                  /\ state.messages[2 * k].recipient = OrchestratorId

\* the executed steps whose worker returned a Result
ReturnedSteps == {i \in 1..Len(step_log) : step_log[i].outcome \in {"ok", "fail"}}

IsMessageEntry(e) == e.type = "message"

\* the messages the audit log records, in its order
MessagesInAuditLog(st) ==
    LET entries == SelectSeq(st.history, IsMessageEntry)
    IN  [k \in 1..Len(entries) |-> entries[k].data]

\* C14: within a step whose worker returns normally, the outbound message is
\* appended, then the worker is invoked, then the Result is stored in
\* state.results, then the inbound message is appended; the audit log records
\* the three writes to the AgentState in that order.
C14_StepSideEffectsInOrder ==
    \A i \in ReturnedSteps :
        LET h == step_log[i].invoked_at
            a == step_log[i].agent
        IN  /\ h >= 1
            /\ Len(state.history) >= h + 2
            /\ state.history[h].type = "message"
            /\ state.history[h].data.sender = OrchestratorId
            /\ state.history[h].data.recipient = a
            /\ state.history[h].data.content = Get(plan[i], "action", "execute task")
            /\ state.history[h + 1].type = "result"
            /\ state.history[h + 1].agent = a
            /\ state.history[h + 1].data = results[i]
            /\ state.history[h + 2].type = "message"
            /\ state.history[h + 2].data.sender = a
            /\ state.history[h + 2].data.recipient = OrchestratorId
            /\ MessagesInAuditLog(state) =
                  [k \in 1..Len(state.messages) |-> MessageToDict(state.messages[k])]
            /\ i = Len(step_log) =>
                  /\ Len(state.history) = h + 2
                  /\ state.results[a] = results[i]

C14_Witness ==
    /\ pc = "done"
    /\ Len(step_log) = 2
    /\ step_log[1].outcome = "ok"
    /\ step_log[2].outcome = "fail"
    /\ Len(state.history) = 6
    /\ Len(report.state.history) = 6

\* the executed steps whose worker id is not in the registry
UnregisteredSteps == {i \in 1..Len(step_log) : step_log[i].agent \notin agents}

\* C15: a step naming a worker that is not in the registry yields a Result with
\* success = false and an error reporting that the worker is not available;
\* nothing is raised, no worker is invoked (no message, no stored result, no
\* context entry for that id), and the loop goes on to the next step.
C15_UnavailableWorkerFailsStep ==
    /\ \A i \in UnregisteredSteps :
          /\ Get(results[i], "success", None) = FALSE
          /\ Get(results[i], "error", None) = NotAvailable(step_log[i].agent)
          /\ Get(results[i], "error", None) \notin {None, ""}
          /\ step_log[i].outcome = NotInvoked.kind
          /\ step_log[i].invoked_at < 0
          /\ step_log[i].agent \notin DOMAIN state.results
          /\ ContextKey(step_log[i].agent) \notin DOMAIN state.context
          /\ \A k \in 1..Len(state.messages) :
                step_log[i].agent \notin {state.messages[k].sender,
                                          state.messages[k].recipient}
    /\ (UnregisteredSteps # {} /\ exc_log # <<>>) =>
          /\ pc \in {"orch_except", "finishing", "done"}
          /\ \A k \in 1..Len(exc_log) : exc_log[k].during = "synthesis"
    /\ PlanReturned =>
          /\ (pc = "executing") <=>
                \/ Len(results) = 0
                \/ Len(results) < Len(plan) /\ state.iteration < max_iterations
          /\ state.iteration = Len(results)

C15_Witness ==
    /\ pc = "done"
    /\ agents = {"code"}
    /\ plan = WORKFLOW_TEMPLATES.data_analysis.steps
    /\ Len(results) = 4
    /\ step_log[1].outcome = "ok"
    /\ UnregisteredSteps = {2, 3, 4}
    /\ report.success = TRUE
    /\ Len(report.state.messages) = 2

\* the workers that executed at least one step
ExecutedWorkers == {step_log[i].agent : i \in RegisteredSteps}

\* the last executed step of worker a
LastStepOf(a) ==
    CHOOSE i \in RegisteredSteps :
        /\ step_log[i].agent = a
        /\ \A j \in RegisteredSteps : step_log[j].agent = a => j <= i

\* C16: at the end of a run state.results holds, for every worker that executed
\* at least one step, the Result of the last step executed for that worker,
\* including when that step failed or raised, and holds no other entry.
C16_ResultsHoldLastStepPerWorker ==
    (pc = "done" /\ ~ContextRaised) =>
        /\ DOMAIN state.results = ExecutedWorkers
        /\ \A a \in ExecutedWorkers : state.results[a] = results[LastStepOf(a)]

\* C17: _execute_step calls state.set_result only for a successful step: every
\* write of a Result the audit log records, and every entry of state.results,
\* is a Result with success = true.
C17_OnlySuccessfulResultsStored ==
    (pc # "idle") =>
        /\ \A a \in DOMAIN state.results : Succeeded(state.results[a])
        /\ \A k \in 1..Len(state.history) :
              state.history[k].type = "result" => Succeeded(state.history[k].data)

\* C18: the dict to_dict returned is a deep copy: whatever add_message,
\* set_result or update_context is applied to the AgentState afterwards, every
\* dict exported earlier still reads as it did when it was returned.
C18_ExportIsDeepCopy ==
    \A k \in 1..Len(snapshots) : ReadSnapshot(snapshots[k], state) = snapshots[k].dict

IsPrefix(s, t) == Len(s) <= Len(t) /\ SubSeq(t, 1, Len(s)) = s

IsAddMessage(c) == c.op = "add_message"

\* the messages handed to add_message, in call order
AddedMessages ==
    LET added == SelectSeq(calls, IsAddMessage)
    IN  [k \in 1..Len(added) |-> added[k].message]

\* C19: under any sequence of add_message, set_result, update_context,
\* get_result and to_dict, state.messages and the audit log only grow by
\* appending, their earlier contents staying an unchanged prefix, and the
\* message order is the order of the add_message calls.
C19_MessagesAndHistoryAppendOnly ==
    /\ [](state.messages = AddedMessages)
    /\ [][/\ IsPrefix(state.messages, state'.messages)
          /\ IsPrefix(state.history, state'.history)
          /\ Len(state'.history) <= Len(state.history) + 1]_vars

C19_Witness ==
    /\ Len(calls) = 4
    /\ Len(state.messages) = 2
    /\ state.messages[1] # state.messages[2]
    /\ Len(state.history) = 3
    /\ Len(snapshots) = 1

\* the generation call of _synthesize_results raised
SynthesisGenerationFailed ==
    \E k \in 1..Len(exc_log) :
        exc_log[k].during = "synthesis" /\ exc_log[k].type = "GenerationError"

RaisedSteps == {i \in 1..Len(step_log) : step_log[i].outcome = "raise"}

\* C20: when the generation call of synthesis raises (at least one step having
\* succeeded), the run ends with a report carrying success = false, no output
\* and the exception's message as error, while the step results and messages
\* recorded before the failure are still in the exported state.
C20_SynthesisFailureReported ==
    SynthesisGenerationFailed =>
        /\ AnySuccess
        /\ Len(exc_log) = 1
        /\ pc \in {"orch_except", "finishing", "done"}
        /\ (pc = "orch_except") => exc = exc_log[1]
        /\ (pc \in {"finishing", "done"}) =>
              /\ result.success = FALSE
              /\ result.output = None
              /\ result.error = exc_log[1].msg
        /\ (pc = "done") =>
              /\ report.success = FALSE
              /\ report.output = None
              /\ report.error = exc_log[1].msg
              /\ report.state = StateToDict(state)
              /\ Len(report.state.messages) =
                    2 * Cardinality(ReturnedSteps) + Cardinality(RaisedSteps)
              /\ DOMAIN report.state.results = {step_log[i].agent : i \in ReturnedSteps}
              /\ \A i \in ReturnedSteps :
                    \E k \in 1..Len(report.state.history) :
                        /\ report.state.history[k].type = "result"
                        /\ report.state.history[k].data = results[i]
              /\ report.summary.total_iterations = Len(results)

C20_Witness ==
    /\ pc = "done"
    /\ SynthesisGenerationFailed
    /\ report.success = FALSE
    /\ report.error = "boom"
    /\ Len(results) = 2
    /\ Len(report.state.messages) = 4
    /\ DOMAIN report.state.results = {"research", "writing"}

\* the calls of MultiAgentSystem.execute that are under way or over
Started == {t \in DOMAIN threads : threads[t].pc # "start"}

\* C11: when two calls of MultiAgentSystem.execute interleave, each plans,
\* executes its steps, computes its summary and exports its state using only
\* the AgentState it created itself: the orchestrator is handed that state, the
\* state counts this run's iterations only, and the report exports it.
C11_RunsKeepToOwnState ==
    \A t \in Started :
        LET th == threads[t]
        IN  /\ th.state \in {0, th.created}
            /\ heap[th.created].iteration = Len(th.results)
            /\ Len(heap[th.created].messages) = 2 * Len(th.results)
            /\ (th.pc = "done") =>
                  /\ th.report.state = StateToDict(heap[th.created])
                  /\ th.report.summary = GetExecutionSummary(heap[th.created])
                  /\ th.report.summary.total_iterations = Len(th.results)

\* the phases of a run in their order; an exception in flight ranks after the
\* phase that can raise it last
PhaseRank(p) ==
    CASE p = "idle" -> 0
      [] p = "planning" -> 1
      [] p = "executing" -> 2
      [] p = "synthesizing" -> 3
      [] p = "orch_except" -> 4
      [] p = "finishing" -> 5
      [] p = "sys_except" -> 5
      [] p = "done" -> 6

\* C21: a run passes through Planning, Executing, Synthesizing, Done in that
\* order, with no retry and no backtracking: the plan is made once, each step of
\* the loop executes the next plan step (strictly increasing index, each index
\* at most once), and nothing is executed once synthesis has begun.
C21_PhasesInOrderNoRetry ==
    /\ [](Cardinality(PlanCalls) <= 1)
    /\ [](pc \in {"idle", "planning"} => plan = <<>> /\ step_log = <<>>)
    /\ [][/\ PhaseRank(pc') >= PhaseRank(pc)
          /\ (PhaseRank(pc') = PhaseRank(pc)) => pc = "executing"
          /\ (pc # "planning") => plan' = plan
          /\ (pc = "executing") =>
                /\ Len(results') = Len(results) + 1
                /\ Len(step_log') = Len(step_log) + 1
                /\ Len(step_log') = Len(results')
                /\ step_log'[Len(step_log')].agent = plan[Len(results')].agent
                /\ SubSeq(results', 1, Len(results)) = results
          /\ (pc # "executing") => (results' = results /\ step_log' = step_log)]_vars

C21_Witness ==
    /\ pc = "done"
    /\ Len(plan) = 4
    /\ Len(step_log) = 4
    /\ step_log[2].outcome = "fail"
    /\ step_log[3].outcome = "raise"
    /\ Cardinality(SynthesisCalls) = 1

\* the plan came from _create_custom_plan (no template matched)
PlanGenerated == PlanReturned /\ PlanCalls # {}

\* C22: every plan returned from the generation path (no template matched) has
\* between 2 and 5 steps, whatever the length of the JSON array the generation
\* service returned and however many of its items survive the filter.
C22_GeneratedPlanHasTwoToFiveSteps ==
    PlanGenerated => (Len(plan) >= 2 /\ Len(plan) <= 5)

\* the Results _execute_step builds itself: for an unavailable worker and for a
\* raised exception
EngineBuiltSteps ==
    {i \in 1..Len(step_log) : step_log[i].outcome \in {"raise", NotInvoked.kind}}

\* success = false implies no output and a non-empty error; success = true
\* implies no error
WellFormedResult(r) ==
    /\ (r.success = FALSE) =>
          /\ Get(r, "output", None) \in {None, ""}
          /\ Get(r, "error", None) \notin {None, ""}
    /\ (r.success = TRUE) => Get(r, "error", None) = None

\* C23: every Result the engine produces itself (the failed Results of
\* _execute_step for an unavailable worker or a raised exception, and the
\* top-level Result of Orchestrator.execute) has, when success = false, no
\* output and a non-empty error, and, when success = true, no error.
C23_EngineResultsWellFormed ==
    /\ \A i \in EngineBuiltSteps : WellFormedResult(results[i])
    /\ ("success" \in DOMAIN result) => WellFormedResult(result)

\* the keys every report is to carry
ReportFields ==
    {"task", "output", "success", "execution_time", "summary", "state", "timestamp"}

\* C24: every report MultiAgentSystem.execute returns, on the successful path
\* and on every failure path, carries task, output, success, execution time,
\* summary, state snapshot and timestamp, and error when the run failed.
C24_ReportCarriesAllFields ==
    (pc = "done") =>
        /\ ReportFields \subseteq DOMAIN report
        /\ (report.success = FALSE) => "error" \in DOMAIN report

\* C25: each executed step (successful, failed, raised, or naming an unavailable
\* worker) increases state.iteration by exactly 1 and nothing else changes it:
\* on the fresh AgentState of a run state.iteration always equals the number of
\* Results accumulated so far, and it never decreases.
C25_IterationCountsExecutedSteps ==
    /\ []((pc # "idle") => (state.iteration = Len(results) /\ Len(results) = Len(step_log)))
    /\ []((pc = "done" /\ "state" \in DOMAIN report) =>
             (report.state.iteration = Len(results)
              /\ report.summary.total_iterations = Len(results)))
    /\ [][/\ (pc = "idle") => state'.iteration = 0
          /\ (pc = "executing") => state'.iteration = state.iteration + 1
          /\ (pc \notin {"idle", "executing"}) => state'.iteration = state.iteration]_vars

C25_Witness ==
    /\ pc = "done"
    /\ state.iteration = 4
    /\ step_log[1].outcome = "ok"
    /\ step_log[2].outcome = NotInvoked.kind
    /\ step_log[3].outcome = "raise"
    /\ step_log[4].outcome = NotInvoked.kind

\* the executed steps whose Result succeeded
SucceededSteps == {i \in 1..Len(results) : results[i].success = TRUE}

\* the k-th of them in plan order
KthSucceeded(k) ==
    CHOOSE j \in SucceededSteps : Cardinality({i \in SucceededSteps : i <= j}) = k

\* C26: the synthesis request holds the output of every executed step whose
\* Result succeeded, exactly once each, in plan order, each labelled with the
\* display name of the worker of its step, also when a worker appears in
\* several steps and when failed steps lie between successful ones; outputs of
\* failed steps are not included.
C26_SynthesisRequestListsSuccessfulOutputs ==
    \A c \in SynthesisCalls :
        LET outs == llm_calls[c].request.outputs
        IN  /\ llm_calls[c].request.task = task
            /\ Len(outs) = Cardinality(SucceededSteps)
            /\ \A k \in 1..Len(outs) :
                  LET j == KthSucceeded(k)
                  IN  /\ step_log[j].outcome = "ok"
                      /\ outs[k].name = AgentName(plan[j].agent)
                      /\ outs[k].output = results[j].output
                      /\ outs[k].output = Get(plan[j], "action", "execute task")

C26_Witness ==
    /\ pc = "done"
    /\ plan = WORKFLOW_TEMPLATES.code_project.steps
    /\ Len(step_log) = 4
    /\ step_log[1].outcome = "ok"
    /\ step_log[2].outcome = "ok"
    /\ step_log[3].outcome = "fail"
    /\ step_log[4].outcome = "ok"
    /\ Len(llm_calls) = 1
    /\ Len(llm_calls[1].request.outputs) = 3
    /\ llm_calls[1].request.outputs[2].name = "Code Agent"
    /\ llm_calls[1].request.outputs[3].name = "Writing Agent"

\* C27: in the execution summary of a report the workers listed as used are
\* exactly the workers whose steps were executed in the run, those whose step
\* raised included, and no worker whose steps the iteration ceiling skipped.
C27_SummaryListsExecutedWorkers ==
    (pc = "done" /\ "summary" \in DOMAIN report) =>
        DOMAIN report.summary.agents_used = ExecutedWorkers

\* C28: provided every worker invocation and every generation call returns or
\* raises, every run that has started reaches Done, for every plan and every
\* ceiling: the loop cannot go on for ever and a failed step does not keep the
\* run from synthesis.
C28_EveryRunReachesDone == (pc # "idle") ~> (pc = "done")

C28_Witness ==
    /\ pc = "done"
    /\ max_iterations = 0
    /\ Len(plan) = 4
    /\ Len(results) = 1
    /\ step_log[1].outcome = "fail"
    /\ report.success = TRUE

\* the calls of MultiAgentSystem.execute whose plan has been made
Planned == {t \in DOMAIN threads : threads[t].plan # None}

\* C29: no run changes the template catalogue: although a template plan is the
\* catalogue's own step list, after any sequence of runs, one after the other
\* or interleaved, every template's steps are what they were at process start,
\* so the same task gets the same template plan in every run.
C29_CatalogueUnchangedByRuns ==
    /\ workflow_templates = WORKFLOW_TEMPLATES
    /\ \A t \in Planned :
          LET th == threads[t]
          IN  /\ th.plan = ExpectedTemplate(th.task)
              /\ PlanOf(th) = WORKFLOW_TEMPLATES[ExpectedTemplate(th.task)].steps
              /\ (th.pc \in {"finishing", "done"} /\ th.result.success = TRUE) =>
                    th.result.metadata.plan =
                       WORKFLOW_TEMPLATES[ExpectedTemplate(th.task)].steps
    /\ \A t \in Planned, u \in Planned :
          (threads[t].task = threads[u].task) => PlanOf(threads[t]) = PlanOf(threads[u])

C29_Witness ==
    /\ \A t \in DOMAIN threads :
          /\ threads[t].pc = "done"
          /\ threads[t].task = TaskBuildApi
          /\ threads[t].alone
          /\ threads[t].result.success = TRUE
          /\ Len(threads[t].results) = 2
    /\ Len(execution_history) = 2
    /\ threads[1].result.metadata.plan = threads[2].result.metadata.plan

\* the outcomes the next step of the loop can have
NextStepOutcomes ==
    IF plan[Len(results) + 1].agent \in agents THEN WorkerOutcomes ELSE {NotInvoked}

\* C30: in every AgentState a run reaches (the workers adding no message of
\* their own), every worker-to-orchestrator message comes right after an
\* orchestrator-to-worker message addressed to that worker, the number of
\* messages is at most 2 * state.iteration + 2, also inside a step before the
\* iteration is counted, and a step naming an unavailable worker adds no
\* message.
C30_MessageLogShape ==
    /\ []((pc # "idle") =>
            /\ \A k \in 1..Len(state.messages) :
                  (state.messages[k].sender # OrchestratorId) =>
                     /\ k > 1
                     /\ state.messages[k].recipient = OrchestratorId
                     /\ state.messages[k - 1].sender = OrchestratorId
                     /\ state.messages[k - 1].recipient = state.messages[k].sender
            /\ Len(state.messages) <= 2 * state.iteration + 2
            /\ (pc = "executing") =>
                  \A o \in NextStepOutcomes :
                     LET mid == ExecuteStepOn(plan[Len(results) + 1], state, agents, o).state
                     IN  /\ mid.iteration = state.iteration
                         /\ Len(mid.messages) <= 2 * mid.iteration + 2
                         /\ Len(mid.messages) >= Len(state.messages))
    /\ [][(pc = "executing" /\ plan[Len(results) + 1].agent \notin agents) =>
             /\ state'.messages = state.messages
             /\ state'.history = state.history]_vars

C30_Witness ==
    /\ pc = "done"
    /\ agents = {"research", "writing"}
    /\ plan = WORKFLOW_TEMPLATES.research_report.steps
    /\ state.iteration = 4
    /\ step_log[1].outcome = "raise"
    /\ step_log[3].outcome = "ok"
    /\ Len(state.messages) = 3
    /\ state.messages[3].sender = "writing"

=============================================================================
